---- MODULE Spec2Model ----
(***************************************************************************)
(* Tube bending visualizer: the circular-arc variant (buildTube, makeArc3D)*)
(* and the NURBS variant (computeControlPoints, updateNURBSCurve).         *)
(*                                                                         *)
(* Numbers.  Lengths and coordinates are integers.  Angles in degrees are  *)
(* multiples of 90; radians are counted in units of pi/4, so that the half *)
(* angle of the NURBS variant is representable.  A real number of the form *)
(* a + b*sqrt(2)/2 is the pair <<a, b>>; a point with such coordinates is  *)
(* the record [r |-> a-part, s |-> b-part] of two integer vectors.         *)
(* Vertex coordinates of a geometry are counted in half units, so that the *)
(* centre of a bounding box is representable.                              *)
(***************************************************************************)
EXTENDS Integers, Sequences, FiniteSets, TLC

VARIABLES
    variant,         \* "arc": the buildTube program, "nurbs": the NURBS program
    pc,              \* "loading" | "running" (application), "swept" | "centered" | "aligned" (normalizer alone)
    bends,           \* the module-level bend list
    endLength,       \* the module-level endLength
    cameraControls,  \* the module-level cameraControls object
    cameraPosition,  \* camera.position
    tubeMesh,        \* tubeMesh / nurbsLine: index into meshes, 0 is null
    group,           \* children of the group: set of indices into meshes
    meshes,          \* the resources of every mesh ever constructed, in construction order
    built,           \* the bends and endLength read by the last build
    first,           \* the bends and endLength read by the first build, and its curve
    path,            \* segments of the CurvePath of the last build (arc variant)
    nurbsCurve,      \* the module-level nurbsCurve (NURBS variant)
    frames,          \* the frame after each bend of the last build
    trace,           \* the calls made by the last handler, in order
    geom,            \* vertices of the geometry being normalized
    size,            \* bounding box size read before the translation
    dominant,        \* the local variable axis of the normalizer
    rotations,       \* the rotation matrices applied to the geometry, in order
    centerings,      \* how often the centering step ran on geom
    shift            \* the translation applied by the last centering step

vars == <<variant, pc, bends, endLength, cameraControls, cameraPosition, tubeMesh,
          group, meshes, built, first, path, nurbsCurve, frames, trace, geom, size,
          dominant, rotations, centerings, shift>>

appVars == <<bends, endLength, cameraControls, cameraPosition, tubeMesh, group,
             meshes, built, first, path, nurbsCurve, frames, trace>>

normVars == <<geom, size, dominant, rotations, centerings, shift>>

----------------------------------------------------------------------------
(* Bounds of the model *)

MaxBends == 2
MaxBuilds == 3
MaxCoord == 2
MaxCenterings == 2

(* Constants of the program *)

BEND_RADIUS == 3
segments == 32
nurbsDegree == 4

(* Input grids.  -180 and 180 degrees are the same rotation; 180 stands for both.
   A camera slider is moved to 5 (cameraControls.y starts at 0). *)
Degrees == {-90, 0, 90, 180}
Lengths == {0, 1}
CameraCoords == {5}
DimTypes == {"tangent", "apex"}

----------------------------------------------------------------------------
(* THREE.Vector3 *)

Zero3 == <<0, 0, 0>>

add(a, b) == <<a[1] + b[1], a[2] + b[2], a[3] + b[3]>>

sub(a, b) == <<a[1] - b[1], a[2] - b[2], a[3] - b[3]>>

multiplyScalar(v, s) == <<v[1] * s, v[2] * s, v[3] * s>>

crossVectors(a, b) ==
    <<a[2] * b[3] - a[3] * b[2], a[3] * b[1] - a[1] * b[3], a[1] * b[2] - a[2] * b[1]>>

dot(a, b) == a[1] * b[1] + a[2] * b[2] + a[3] * b[3]

lengthSq(v) == dot(v, v)

\* Math.sqrt on the squares the model meets (exact on perfect squares).
sqrt(n) == CHOOSE r \in 0 .. n : r * r <= n /\ n < (r + 1) * (r + 1)

\* Vector3.normalize: divideScalar(length() || 1); the zero vector stays zero.
normalize(v) ==
    LET l == sqrt(lengthSq(v))
        d == IF l = 0 THEN 1 ELSE l
    IN  <<v[1] \div d, v[2] \div d, v[3] \div d>>

\* MathUtils.degToRad, the result counted in units of pi/4.
degToRad(d) == d \div 45

\* cos and sin of e * pi/4 as pairs <<a, b>> meaning a + b * sqrt(2)/2.
reduce8(e) == ((e + 4) % 8) - 4

cos(e) ==
    LET m == reduce8(e)
        k == IF m < 0 THEN -m ELSE m
    IN  CASE k = 0 -> <<1, 0>>
          [] k = 1 -> <<0, 1>>
          [] k = 2 -> <<0, 0>>
          [] k = 3 -> <<0, -1>>
          [] OTHER -> <<-1, 0>>

sin(e) ==
    LET m == reduce8(e)
        k == IF m < 0 THEN -m ELSE m
        p == CASE k = 0 -> <<0, 0>>
               [] k = 1 -> <<0, 1>>
               [] k = 2 -> <<1, 0>>
               [] k = 3 -> <<0, 1>>
               [] OTHER -> <<0, 0>>
    IN  IF m < 0 /\ m # -4 THEN <<-p[1], -p[2]>> ELSE p

\* Vector3.applyQuaternion(q) with q = setFromAxisAngle(axis, angle):
\* v + 2*qw*(qv x v) + 2*qv x (qv x v), qv = axis*sin(angle/2), qw = cos(angle/2),
\* which is v + sin(angle)*(axis x v) + (1 - cos(angle))*(axis x (axis x v))
\* for every axis, the zero axis included.
applyAxisAngleSurd(v, axis, e) ==
    LET kv  == crossVectors(axis, v)
        kkv == crossVectors(axis, kv)
        c   == cos(e)
        s   == sin(e)
    IN  [r |-> add(v, add(multiplyScalar(kv, s[1]), multiplyScalar(kkv, 1 - c[1]))),
         s |-> sub(multiplyScalar(kv, s[2]), multiplyScalar(kkv, c[2]))]

\* Vector3.applyAxisAngle for a multiple of pi/2 (the sqrt(2)/2 part is zero).
applyAxisAngle(v, axis, e) == applyAxisAngleSurd(v, axis, e).r

----------------------------------------------------------------------------
(* Arc Generator: makeArc3D *)

ArcPointNoCenter(origin, center, axis, t) == applyAxisAngle(sub(origin, center), axis, t)

\* One sample of the arc: origin.clone().sub(center).applyQuaternion(q).add(center)
ArcPoint(origin, center, axis, t) ==
    add(applyAxisAngle(sub(origin, center), axis, t), center)

\* The samples i = 0 and i = segments; t = (i / segments) * angle.
makeArc3D(origin, tangent, axis, radius, angle) ==
    LET center == add(origin, multiplyScalar(normalize(crossVectors(axis, tangent)), radius))
    IN  [kind   |-> "Arc",
         points |-> [i \in {0, segments} |->
                        ArcPoint(origin, center, axis, (i \div segments) * angle)]]

\* CatmullRomCurve3.getPoint(1) of an open curve: its last point.
getPoint1(arc) == arc.points[segments]

LineCurve3(v1, v2) == [kind |-> "Line", v1 |-> v1, v2 |-> v2]

----------------------------------------------------------------------------
(* Frame Propagator: the walk of buildTube *)

InitialFrame == [pos |-> Zero3, tangent |-> <<1, 0, 0>>, normal |-> <<0, 1, 0>>]

StraightBackwards(pos, tangent, len) ==
    LineCurve3(pos, sub(pos, multiplyScalar(tangent, len)))

\* pos.clone().add(tangent.clone().multiplyScalar(len)) and the LineCurve3 to it
Straight(pos, tangent, len) ==
    LineCurve3(pos, add(pos, multiplyScalar(tangent, len)))

AdvanceFrameKeepNormal(tangent, normal, axis, arcAngle, arc) ==
    [pos     |-> getPoint1(arc),
     tangent |-> applyAxisAngle(tangent, axis, arcAngle),
     normal  |-> normal]

\* advance frame: pos from the arc, tangent and normal rotated about the axis
AdvanceFrame(tangent, normal, axis, arcAngle, arc) ==
    [pos     |-> getPoint1(arc),
     tangent |-> applyAxisAngle(tangent, axis, arcAngle),
     normal  |-> applyAxisAngle(normal, axis, arcAngle)]

\* One iteration of bends.forEach in buildTube; st = [pos, tangent, normal, path, frames].
BendStep(st, b) ==
    LET line     == Straight(st.pos, st.tangent, b.length)
        pos1     == line.v2
        normal1  == applyAxisAngle(st.normal, st.tangent, degToRad(b.rotation))
        axis     == normalize(crossVectors(st.tangent, normal1))
        arcAngle == degToRad(b.angle)
        arc      == makeArc3D(pos1, st.tangent, axis, BEND_RADIUS, arcAngle)
        f        == AdvanceFrame(st.tangent, normal1, axis, arcAngle, arc)
    IN  [pos     |-> f.pos,
         tangent |-> f.tangent,
         normal  |-> f.normal,
         path    |-> st.path \o <<line, arc>>,
         frames  |-> Append(st.frames, [pos |-> f.pos, tangent |-> f.tangent,
                                        normal |-> f.normal, axis |-> axis])]

RECURSIVE forEachBend(_, _, _)
forEachBend(bs, i, st) ==
    IF i > Len(bs) THEN st ELSE forEachBend(bs, i + 1, BendStep(st, bs[i]))

\* final straight: a Line of length endLength from pos along the tangent
FinalStraight(st, el) ==
    [st EXCEPT !.path = Append(st.path, Straight(st.pos, st.tangent, el))]

\* The centerline of buildTube: the walk from a start frame and the final straight.
Centerline(start, bs, el) ==
    FinalStraight(forEachBend(bs, 1, [pos |-> start.pos, tangent |-> start.tangent,
                                      normal |-> start.normal, path |-> <<>>,
                                      frames |-> <<>>]), el)

----------------------------------------------------------------------------
(* NURBS Control-Point Builder: computeControlPoints *)

Plain(p) == [r |-> p, s |-> Zero3]

\* One iteration of bends.forEach in computeControlPoints;
\* st = [pos, tangent, normal, points, frames], normal is the variable up.
ControlStep(st, b) ==
    LET up1        == applyAxisAngle(st.normal, st.tangent, degToRad(b.rotation))
        axis       == normalize(crossVectors(st.tangent, up1))
        angleRad   == degToRad(b.angle)
        midTangent == applyAxisAngleSurd(st.tangent, axis, angleRad \div 2)
        midPoint   == [r |-> add(st.pos, multiplyScalar(midTangent.r, b.length)),
                       s |-> multiplyScalar(midTangent.s, b.length)]
        tangent1   == applyAxisAngle(st.tangent, axis, angleRad)
        pos1       == add(st.pos, multiplyScalar(tangent1, b.length))
    IN  [pos     |-> pos1,
         tangent |-> tangent1,
         normal  |-> up1,
         points  |-> st.points \o <<Plain(st.pos), midPoint>>,
         frames  |-> Append(st.frames, [pos |-> pos1, tangent |-> tangent1,
                                        normal |-> up1, axis |-> axis])]

RECURSIVE forEachControl(_, _, _)
forEachControl(bs, i, st) ==
    IF i > Len(bs) THEN st ELSE forEachControl(bs, i + 1, ControlStep(st, bs[i]))

\* final straight segment: the current position and the end point
FinalPoints(st, el) ==
    [st EXCEPT !.points = st.points \o <<Plain(st.pos),
                                         Plain(add(st.pos, multiplyScalar(st.tangent, el)))>>]

computeControlPoints(bs, el) ==
    FinalPoints(forEachControl(bs, 1, [pos |-> Zero3, tangent |-> <<1, 0, 0>>,
                                       normal |-> <<0, 1, 0>>, points |-> <<>>,
                                       frames |-> <<>>]), el)

\* MathUtils.clamp((i + 1) / (n - nurbsDegree), 0, 1) as a fraction <<num, den>>;
\* a division by zero gives Infinity, clamped to 1.
Knot(i, n) ==
    LET d == n - nurbsDegree
    IN  IF d < 0 THEN <<0, 1>>
        ELSE IF d = 0 \/ i + 1 >= d THEN <<1, 1>>
        ELSE <<i + 1, d>>

Knots(n) ==
    [k \in 1 .. (nurbsDegree + 1) |-> <<0, 1>>] \o [k \in 1 .. n |-> Knot(k - 1, n)]

\* nurbsCurve before the first build
NoCurve == [degree |-> 0, knots |-> <<>>, controlPoints |-> <<>>]

\* new NURBSCurve(nurbsDegree, knots, controlPoints4)
NURBSCurve(points) ==
    [degree |-> nurbsDegree, knots |-> Knots(Len(points)), controlPoints |-> points]

----------------------------------------------------------------------------
(* Curve-to-Mesh Normalizer: the second half of buildTube *)

SetMin(S) == CHOOSE m \in S : \A x \in S : m <= x

SetMax(S) == CHOOSE m \in S : \A x \in S : m >= x

\* The end points of the segments of a path (the samples kept of an arc).
PathPoints(p) ==
    UNION {IF p[k].kind = "Line" THEN {p[k].v1, p[k].v2}
           ELSE {p[k].points[i] : i \in DOMAIN p[k].points} : k \in DOMAIN p}

\* new THREE.TubeGeometry(path, 300, 0.5, 24): the vertices kept by the model are
\* the points of the centerline, in half units.
TubeGeometry(p) == {multiplyScalar(v, 2) : v \in PathPoints(p)}

computeBoundingBox(verts) ==
    [min |-> <<SetMin({v[1] : v \in verts}), SetMin({v[2] : v \in verts}),
               SetMin({v[3] : v \in verts})>>,
     max |-> <<SetMax({v[1] : v \in verts}), SetMax({v[2] : v \in verts}),
               SetMax({v[3] : v \in verts})>>]

getCenterOfMax(box) ==
    <<box.max[1] \div 2, box.max[2] \div 2, box.max[3] \div 2>>

\* Box3.getCenter: (min + max) * 0.5
getCenter(box) ==
    <<(box.min[1] + box.max[1]) \div 2, (box.min[2] + box.max[2]) \div 2,
      (box.min[3] + box.max[3]) \div 2>>

\* Box3.getSize: max - min
getSize(box) == sub(box.max, box.min)

\* BufferGeometry.translate
translate(verts, d) == {add(v, d) : v \in verts}

\* geom.computeBoundingBox(); getCenter; getSize; geom.translate(-center)
CenterGeometry(verts) ==
    LET box    == computeBoundingBox(verts)
        center == getCenter(box)
        d      == multiplyScalar(center, -1)
    IN  [geom |-> translate(verts, d), size |-> getSize(box), shift |-> d]

DominantAxisLoose(s) ==
    LET a1 == "x"
        a2 == IF s[2] >= s[1] /\ s[2] >= s[3] THEN "y" ELSE a1
        a3 == IF s[3] > s[1] /\ s[3] > s[2] THEN "z" ELSE a2
    IN  a3

\* let axis = 'x'; if (size.y > size.x && size.y > size.z) axis = 'y'; if (...) axis = 'z'
DominantAxis(s) ==
    LET a1 == "x"
        a2 == IF s[2] > s[1] /\ s[2] > s[3] THEN "y" ELSE a1
        a3 == IF s[3] > s[1] /\ s[3] > s[2] THEN "z" ELSE a2
    IN  a3

\* Matrix4.makeRotationZ(-Math.PI / 2) and Matrix4.makeRotationY(Math.PI / 2)
RotationZ == [name |-> "makeRotationZ(-PI/2)", axis |-> <<0, 0, 1>>, angle |-> -2]

RotationY == [name |-> "makeRotationY(PI/2)", axis |-> <<0, 1, 0>>, angle |-> 2]

\* The matrices applied by the two if statements, in order.
AlignRotations(axis) ==
    (IF axis = "y" THEN <<RotationZ>> ELSE <<>>) \o
    (IF axis = "z" THEN <<RotationY>> ELSE <<>>)

\* BufferGeometry.applyMatrix4 with a rotation matrix
applyMatrix4(verts, m) == {applyAxisAngle(v, m.axis, m.angle) : v \in verts}

RECURSIVE applyAll(_, _)
applyAll(verts, ms) ==
    IF ms = <<>> THEN verts ELSE applyAll(applyMatrix4(verts, Head(ms)), Tail(ms))

\* The extents of the bounding box of a vertex set and twice its centre.
Extents(verts) == getSize(computeBoundingBox(verts))

CenterTwice(verts) ==
    LET box == computeBoundingBox(verts) IN add(box.min, box.max)

----------------------------------------------------------------------------
(* The mesh, the group and the rebuild: buildTube and updateNURBSCurve *)

Call(op, arg) == [op |-> op, arg |-> arg]

DisposeGeometryOnly(ms, old) ==
    IF old = 0 THEN ms ELSE [ms EXCEPT ![old].geometryDisposed = TRUE]

\* tubeMesh.geometry.dispose(); tubeMesh.material.dispose()
DisposeOld(ms, old) ==
    IF old = 0 THEN ms
    ELSE [ms EXCEPT ![old].geometryDisposed = TRUE, ![old].materialDisposed = TRUE]

\* group.remove(tubeMesh)
RemoveOld(g, old) == IF old = 0 THEN g ELSE g \ {old}

\* The calls of the if (tubeMesh) { ... } block.
ReleaseCalls(old) ==
    IF old = 0 THEN <<>>
    ELSE <<Call("geometry.dispose", old), Call("material.dispose", old),
           Call("group.remove", old)>>

StartFrameCarried ==
    IF frames = <<>> THEN InitialFrame
    ELSE [pos |-> frames[Len(frames)].pos, tangent |-> frames[Len(frames)].tangent,
          normal |-> frames[Len(frames)].normal]

\* let pos = (0,0,0), tangent = (1,0,0), normal = (0,1,0): locals of every call
StartFrame == InitialFrame

\* determine dominant axis; rotate geometry to align dominant axis to X
AlignGeometry(cen) ==
    [size |-> cen.size, shift |-> cen.shift, dominant |-> DominantAxis(cen.size),
     rotations |-> AlignRotations(DominantAxis(cen.size)),
     geom |-> applyAll(cen.geom, AlignRotations(DominantAxis(cen.size)))]

\* The geometry of buildTube: swept, centered, aligned.
NormalizedTube(p) == AlignGeometry(CenterGeometry(TubeGeometry(p)))

\* new THREE.Mesh(geometry, material): neither resource is disposed
NewMesh == [geometryDisposed |-> FALSE, materialDisposed |-> FALSE]

\* What the first build read and made; kept to compare later builds with it.
FirstBuild(bs, el, curve) ==
    IF meshes = <<>> THEN [bends |-> bs, endLength |-> el, curve |-> curve] ELSE first

\* function buildTube(), called with the trace of the handler so far
buildTube(bs, el, pre) ==
    /\ Len(meshes) < MaxBuilds
    /\ \E c \in {Centerline(StartFrame, bs, el)} :
          /\ path' = c.path
          /\ frames' = c.frames
    /\ \E n \in {NormalizedTube(path')} :
          /\ geom' = n.geom
          /\ size' = n.size
          /\ dominant' = n.dominant
          /\ rotations' = n.rotations
          /\ shift' = n.shift
    /\ centerings' = 1
    /\ meshes' = Append(DisposeOld(meshes, tubeMesh), NewMesh)
    /\ built' = [bends |-> bs, endLength |-> el]
    /\ first' = FirstBuild(bs, el, path')
    /\ group' = RemoveOld(group, tubeMesh) \cup {Len(meshes) + 1}
    /\ tubeMesh' = Len(meshes) + 1
    /\ trace' = pre \o <<Call("buildTube", 0)>> \o ReleaseCalls(tubeMesh)
                    \o <<Call("new Mesh", Len(meshes) + 1), Call("group.add", Len(meshes) + 1)>>
    /\ UNCHANGED nurbsCurve

\* function updateNURBSCurve(), called with the trace of the handler so far
updateNURBSCurve(bs, el, pre) ==
    /\ Len(meshes) < MaxBuilds
    /\ \E c \in {computeControlPoints(bs, el)} :
          /\ nurbsCurve' = NURBSCurve(c.points)
          /\ frames' = c.frames
    /\ meshes' = Append(DisposeOld(meshes, tubeMesh), NewMesh)
    /\ built' = [bends |-> bs, endLength |-> el]
    /\ first' = FirstBuild(bs, el, nurbsCurve'.controlPoints)
    /\ group' = RemoveOld(group, tubeMesh) \cup {Len(meshes) + 1}
    /\ tubeMesh' = Len(meshes) + 1
    /\ trace' = pre \o <<Call("updateNURBSCurve", 0)>> \o ReleaseCalls(tubeMesh)
                    \o <<Call("new Mesh", Len(meshes) + 1), Call("group.add", Len(meshes) + 1)>>
    /\ UNCHANGED <<path, geom, size, dominant, rotations, centerings, shift>>

Rebuild(bs, el, pre) ==
    IF variant = "arc" THEN buildTube(bs, el, pre) ELSE updateNURBSCurve(bs, el, pre)

----------------------------------------------------------------------------
(* init() and the GUI handlers *)

InitBend(i) ==
    [length |-> 1, angle |-> 90,
     rotation |-> IF i % 2 = 1 THEN 0 ELSE IF i % 4 = 2 THEN 90 ELSE -90]

WithDimType(b) ==
    [length |-> b.length, angle |-> b.angle, rotation |-> b.rotation, dimType |-> "tangent"]

BendRecords(v) ==
    IF v = "arc" THEN [length : Lengths, angle : Degrees, rotation : Degrees]
    ELSE [length : Lengths, angle : Degrees, rotation : Degrees, dimType : {"tangent"}]

InitCommon ==
    /\ pc = "loading"
    /\ cameraControls = [x |-> 5, y |-> 0, z |-> 5]
    /\ cameraPosition = <<5, 0, 5>>
    /\ tubeMesh = 0
    /\ group = {}
    /\ meshes = <<>>
    /\ built = [bends |-> <<>>, endLength |-> 0]
    /\ first = [bends |-> <<>>, endLength |-> 0, curve |-> <<>>]
    /\ path = <<>>
    /\ nurbsCurve = NoCurve
    /\ frames = <<>>
    /\ trace = <<>>
    /\ geom = {}
    /\ size = Zero3
    /\ dominant = "x"
    /\ rotations = <<>>
    /\ centerings = 0
    /\ shift = Zero3

\* The module state when init() has loaded the environment map.
Init ==
    /\ variant \in {"arc", "nurbs"}
    /\ \E n \in 0 .. MaxBends :
          bends = [i \in 1 .. n |->
                      IF variant = "arc" THEN InitBend(i) ELSE WithDimType(InitBend(i))]
    /\ endLength = 1
    /\ InitCommon

\* buildTube() / updateNURBSCurve() of init(), before the GUI exists
InitialBuild ==
    /\ pc = "loading"
    /\ pc' = "running"
    /\ Rebuild(bends, endLength, <<>>)
    /\ UNCHANGED <<variant, bends, endLength, cameraControls, cameraPosition>>

\* f.add(b, 'length', ...).onChange(rebuild): the controller stores, then calls back
ChangeLength(i, v) ==
    /\ pc = "running"
    /\ v # bends[i].length
    /\ bends' = [bends EXCEPT ![i].length = v]
    /\ Rebuild(bends', endLength, <<Call("set length", i)>>)
    /\ UNCHANGED <<variant, pc, endLength, cameraControls, cameraPosition>>

ChangeAngle(i, v) ==
    /\ pc = "running"
    /\ v # bends[i].angle
    /\ bends' = [bends EXCEPT ![i].angle = v]
    /\ Rebuild(bends', endLength, <<Call("set angle", i)>>)
    /\ UNCHANGED <<variant, pc, endLength, cameraControls, cameraPosition>>

ChangeRotation(i, v) ==
    /\ pc = "running"
    /\ v # bends[i].rotation
    /\ bends' = [bends EXCEPT ![i].rotation = v]
    /\ Rebuild(bends', endLength, <<Call("set rotation", i)>>)
    /\ UNCHANGED <<variant, pc, endLength, cameraControls, cameraPosition>>

\* folder.add(b, 'dimType', ['tangent', 'apex']).onChange(updateNURBSCurve)
ChangeDimType(i, v) ==
    /\ pc = "running"
    /\ variant = "nurbs"
    /\ v # bends[i].dimType
    /\ bends' = [bends EXCEPT ![i].dimType = v]
    /\ Rebuild(bends', endLength, <<Call("set dimType", i)>>)
    /\ UNCHANGED <<variant, pc, endLength, cameraControls, cameraPosition>>

ChangeEndLengthStale(v) ==
    /\ pc = "running"
    /\ v # endLength
    /\ Rebuild(bends, endLength, <<>>)
    /\ endLength' = v
    /\ UNCHANGED <<variant, pc, bends, cameraControls, cameraPosition>>

\* onChange((v) => { endLength = v; rebuild(); })
ChangeEndLength(v) ==
    /\ pc = "running"
    /\ v # endLength
    /\ endLength' = v
    /\ Rebuild(bends, endLength', <<Call("set endLength", 0)>>)
    /\ UNCHANGED <<variant, pc, bends, cameraControls, cameraPosition>>

\* camFolder.add(cameraControls, k, ...).onChange(updateCamera)
ChangeCamera(k, v) ==
    /\ pc = "running"
    /\ variant = "nurbs"
    /\ v # cameraControls[k]
    /\ cameraControls' = [cameraControls EXCEPT ![k] = v]
    /\ cameraPosition' = <<cameraControls'.x, cameraControls'.y, cameraControls'.z>>
    /\ trace' = <<Call("set camera", k), Call("updateCamera", 0)>>
    /\ UNCHANGED <<variant, pc, bends, endLength, tubeMesh, group, meshes, built,
                   first, path, nurbsCurve, frames, geom, size, dominant, rotations,
                   centerings, shift>>

Next ==
    \/ InitialBuild
    \/ \E i \in DOMAIN bends, v \in Lengths : ChangeLength(i, v)
    \/ \E i \in DOMAIN bends, v \in Degrees : ChangeAngle(i, v)
    \/ \E i \in DOMAIN bends, v \in Degrees : ChangeRotation(i, v)
    \/ \E i \in DOMAIN bends, v \in DimTypes : ChangeDimType(i, v)
    \/ \E v \in Lengths : ChangeEndLength(v)
    \/ \E k \in {"x", "y", "z"}, v \in CameraCoords : ChangeCamera(k, v)

Spec == Init /\ [][Next]_vars

----------------------------------------------------------------------------
(* One build for every bend list of the grid *)

InitAny ==
    /\ variant \in {"arc", "nurbs"}
    /\ \E n \in 0 .. MaxBends : bends \in [1 .. n -> BendRecords(variant)]
    /\ endLength \in Lengths
    /\ InitCommon

NextBuild == InitialBuild

SpecBuild == InitAny /\ [][NextBuild]_vars

----------------------------------------------------------------------------
(* The normalizer alone, on every vertex set of a grid *)

Grid == {<<2 * x, 2 * y, 2 * z>> : x \in 0 .. MaxCoord, y \in 0 .. MaxCoord, z \in 0 .. MaxCoord}

InitNorm ==
    /\ variant = "arc"
    /\ pc = "swept"
    /\ \E a \in Grid, b \in Grid, c \in Grid : geom = {a, b, c}
    /\ size = Zero3
    /\ dominant = "x"
    /\ rotations = <<>>
    /\ centerings = 0
    /\ shift = Zero3
    /\ bends = <<>>
    /\ endLength = 0
    /\ cameraControls = [x |-> 5, y |-> 0, z |-> 5]
    /\ cameraPosition = <<5, 0, 5>>
    /\ tubeMesh = 0
    /\ group = {}
    /\ meshes = <<>>
    /\ built = [bends |-> <<>>, endLength |-> 0]
    /\ first = [bends |-> <<>>, endLength |-> 0, curve |-> <<>>]
    /\ path = <<>>
    /\ nurbsCurve = NoCurve
    /\ frames = <<>>
    /\ trace = <<>>

\* center geometry at origin
CenterStep ==
    /\ pc \in {"swept", "centered"}
    /\ centerings < MaxCenterings
    /\ LET c == CenterGeometry(geom)
       IN  /\ geom' = c.geom
           /\ size' = c.size
           /\ shift' = c.shift
    /\ centerings' = centerings + 1
    /\ pc' = "centered"
    /\ UNCHANGED <<variant, dominant, rotations>>
    /\ UNCHANGED appVars

\* determine dominant axis; rotate geometry to align dominant axis to X
AlignStep ==
    /\ pc = "centered"
    /\ dominant' = DominantAxis(size)
    /\ rotations' = AlignRotations(dominant')
    /\ geom' = applyAll(geom, rotations')
    /\ pc' = "aligned"
    /\ UNCHANGED <<variant, size, centerings, shift>>
    /\ UNCHANGED appVars

NextNorm == CenterStep \/ AlignStep

SpecNorm == InitNorm /\ [][NextNorm]_vars

----------------------------------------------------------------------------
(* Properties *)

SegStart(seg) == IF seg.kind = "Line" THEN seg.v1 ELSE seg.points[0]

SegEnd(seg) == IF seg.kind = "Line" THEN seg.v2 ELSE seg.points[segments]

ArcBuilt == variant = "arc" /\ pc = "running"

NurbsBuilt == variant = "nurbs" /\ pc = "running"

\* The tangent with which bend i (or, for i = Len(bends) + 1, the final straight) starts.
TangentBefore(i) == IF i = 1 THEN <<1, 0, 0>> ELSE frames[i - 1].tangent

Orthonormal(f) ==
    /\ lengthSq(f.tangent) = 1
    /\ lengthSq(f.normal) = 1
    /\ dot(f.tangent, f.normal) = 0

UnitAxis(f) ==
    /\ lengthSq(f.axis) = 1
    /\ crossVectors(f.tangent, f.normal) # Zero3

\* C1: continuity of the centerline of buildTube.  Every segment of the path starts
\* where the previous one ends; the arc of bend i starts (sample 0) at the end of
\* the Line of bend i, and the position carried forward by the propagator, where
\* the next Line starts, is the arc's sample at its final angle.
C1_Continuity ==
    ArcBuilt =>
        /\ \A k \in 1 .. (Len(path) - 1) : SegEnd(path[k]) = SegStart(path[k + 1])
        /\ \A i \in 1 .. Len(bends) :
              /\ path[2 * i].points[0] = path[2 * i - 1].v2
              /\ frames[i].pos = path[2 * i].points[segments]
              /\ path[2 * i + 1].v1 = frames[i].pos

C1_Witness ==
    /\ ArcBuilt
    /\ Len(bends) = 2
    /\ \A i \in 1 .. 2 : path[2 * i].points[0] # path[2 * i].points[segments]
    /\ \A i \in 1 .. 3 : path[2 * i - 1].v1 # path[2 * i - 1].v2

\* C2: segment structure of the path of buildTube.  For n bends the path holds
\* 2n+1 segments Line, Arc, ..., Line; the i-th Line has length bends[i].length
\* along the tangent current at that step, the last Line has length endLength
\* along the final tangent; no bend gives one Line from the origin along +X.
C2_SegmentStructure ==
    ArcBuilt =>
        LET n == Len(bends)
        IN  /\ Len(path) = 2 * n + 1
            /\ \A k \in 1 .. (2 * n + 1) :
                  path[k].kind = IF k % 2 = 1 THEN "Line" ELSE "Arc"
            /\ \A i \in 1 .. n :
                  sub(path[2 * i - 1].v2, path[2 * i - 1].v1)
                      = multiplyScalar(TangentBefore(i), bends[i].length)
            /\ sub(path[2 * n + 1].v2, path[2 * n + 1].v1)
                   = multiplyScalar(TangentBefore(n + 1), endLength)
            /\ path[1].v1 = Zero3
            /\ n = 0 => path = <<[kind |-> "Line", v1 |-> Zero3, v2 |-> <<endLength, 0, 0>>]>>

C2_Witness ==
    /\ ArcBuilt
    /\ Len(bends) = 1
    /\ bends[1].length = 1
    /\ bends[1].angle = 90
    /\ endLength = 1
    /\ Len(path) = 3

\* C3: frame invariant of the Frame Propagator.  After each bend of buildTube the
\* tangent and the normal are unit vectors orthogonal to each other, and the bend
\* axis cross(tangent, normal) is not the zero vector.
C3_FrameInvariant ==
    ArcBuilt => \A i \in 1 .. Len(frames) : Orthonormal(frames[i]) /\ UnitAxis(frames[i])

C3_Witness ==
    /\ ArcBuilt
    /\ Len(frames) = 2
    /\ bends[1].angle = 90
    /\ bends[2].rotation = 90
    /\ bends[2].angle = -90

\* C4: normalizer guarantee.  After the centering and the dominant-axis rotation
\* the bounding box is centered at the origin and its X extent is its longest.
C4_LongestAlongX ==
    pc = "aligned" =>
        /\ CenterTwice(geom) = Zero3
        /\ Extents(geom)[1] >= Extents(geom)[2]
        /\ Extents(geom)[1] >= Extents(geom)[3]

\* C5: dominant-axis selection.  The axis is Y exactly when sy > sx and sy > sz,
\* Z exactly when sz > sx and sz > sy, X otherwise; Y applies only the rotation
\* of -90 degrees about Z (the Y extent becomes the X extent), Z only the rotation
\* of +90 degrees about Y (the Z extent becomes the X extent), X applies none.
C5_DominantAxis ==
    pc = "aligned" =>
        LET isY == size[2] > size[1] /\ size[2] > size[3]
            isZ == size[3] > size[1] /\ size[3] > size[2]
        IN  /\ (dominant = "y") <=> isY
            /\ (dominant = "z") <=> isZ
            /\ (dominant = "x") <=> (~isY /\ ~isZ)
            /\ Len(rotations) <= 1
            /\ dominant = "x" => rotations = <<>> /\ Extents(geom) = size
            /\ dominant = "y" =>
                  /\ rotations = <<RotationZ>>
                  /\ Extents(geom) = <<size[2], size[1], size[3]>>
            /\ dominant = "z" =>
                  /\ rotations = <<RotationY>>
                  /\ Extents(geom) = <<size[3], size[2], size[1]>>

C5_Witness ==
    /\ pc = "aligned"
    /\ size = <<2, 4, 2>>
    /\ dominant = "y"
    /\ rotations = <<RotationZ>>

\* C6: resource discipline.  After every build the group holds exactly the current
\* mesh; every earlier mesh has its geometry and its material disposed and is out
\* of the group; at most one mesh is undisposed; within a handler the old mesh is
\* released before the new one is added.
C6_OneLiveMesh ==
    pc = "running" =>
        /\ tubeMesh = Len(meshes)
        /\ group = {tubeMesh}
        /\ \A id \in 1 .. Len(meshes) :
              IF id = tubeMesh
              THEN ~meshes[id].geometryDisposed /\ ~meshes[id].materialDisposed
              ELSE meshes[id].geometryDisposed /\ meshes[id].materialDisposed
        /\ Cardinality({id \in 1 .. Len(meshes) :
                           ~meshes[id].geometryDisposed \/ ~meshes[id].materialDisposed}) <= 1
        /\ \A i, j \in 1 .. Len(trace) :
              (/\ trace[i].op \in {"geometry.dispose", "material.dispose", "group.remove"}
               /\ trace[j].op = "group.add") => i < j

C6_Witness ==
    /\ pc = "running"
    /\ Len(meshes) >= 3
    /\ \E i \in 1 .. Len(trace) : trace[i].op = "group.remove" /\ trace[i].arg = 2

\* C7: reproducibility.  An invocation of buildTube with the bends and the
\* endLength of the first invocation gives the path of the first invocation,
\* whatever was built in between; every path starts at the origin along +X, and
\* a build leaves its inputs as they are.
C7_Reproducible ==
    ArcBuilt =>
        /\ (bends = first.bends /\ endLength = first.endLength) => path = first.curve
        /\ path[1].v1 = Zero3
        /\ path[1].v2 = <<IF bends = <<>> THEN endLength ELSE bends[1].length, 0, 0>>
        /\ built = [bends |-> bends, endLength |-> endLength]

C7_Witness ==
    /\ ArcBuilt
    /\ Len(meshes) = 3
    /\ Len(bends) = 2
    /\ bends = first.bends
    /\ endLength = first.endLength
    /\ trace[1].op = "set angle"

BuildCalls == {"buildTube", "updateNURBSCurve"}

\* C8: rebuild on every parameter change.  The handler of a change of a bend or
\* of endLength stores the value and then rebuilds exactly once, so the mesh of
\* the group is the one built from the current bends and endLength; the handler
\* of a camera change rebuilds nothing.
C8_RebuildOnChange ==
    pc = "running" =>
        /\ built = [bends |-> bends, endLength |-> endLength]
        /\ variant = "arc" => path = Centerline(InitialFrame, bends, endLength).path
        /\ variant = "nurbs" =>
               nurbsCurve = NURBSCurve(computeControlPoints(bends, endLength).points)
        /\ Cardinality({i \in 1 .. Len(trace) : trace[i].op \in BuildCalls})
               = IF trace[1].op = "set camera" THEN 0 ELSE 1
        /\ trace[1].op \in {"set length", "set angle", "set rotation", "set dimType",
                            "set endLength"} => trace[2].op \in BuildCalls
        /\ trace[1].op = "set camera" =>
               /\ \A i \in 1 .. Len(trace) : trace[i].op \notin {"new Mesh", "group.add"}
               /\ cameraPosition = <<cameraControls.x, cameraControls.y, cameraControls.z>>

C8_Witness ==
    /\ pc = "running"
    /\ variant = "arc"
    /\ trace[1].op = "set endLength"
    /\ endLength = 0
    /\ Len(meshes) = 2

\* C9: centering idempotence.  The centering step applied to its own result
\* translates by the zero vector.
C9_CenteringIdempotent ==
    (pc = "centered" /\ centerings >= 2) => shift = Zero3

C9_Witness ==
    /\ pc = "centered"
    /\ centerings = 2
    /\ Cardinality(geom) = 3
    /\ size = <<4, 2, 4>>

\* C10: frame advance of computeControlPoints.  After each bend the tangent and
\* the up vector are unit vectors orthogonal to each other, and the bend axis of
\* every bend is a unit vector.
C10_FrameInvariantNurbs ==
    NurbsBuilt => \A i \in 1 .. Len(frames) : Orthonormal(frames[i]) /\ UnitAxis(frames[i])

====
